---- MODULE Spec2Model ----
(***************************************************************************)
(* A model of the C# build-fix scenario of vscode-copilot-chat:            *)
(*   - the validation callback of csharp-build-fix.stest.ts, which scores  *)
(*     an agent transcript against five keyword checks, extracts tool      *)
(*     calls, logs, writes debug-analysis.json and returns a verdict;      *)
(*   - the two launcher scripts (bash and PowerShell) that discover a      *)
(*     GitHub token, check the build artifact and the Docker image and run *)
(*     the simulation in a container.                                      *)
(* Transcripts, messages and file names are TLA+ strings; TLC evaluates    *)
(* Len, SubSeq and \o on strings, so substring search and the regular      *)
(* expression are computed character by character.                         *)
(***************************************************************************)
EXTENDS Integers, Sequences, FiniteSets, TLC

VARIABLES
    \* ---- validation callback (csharp-build-fix.stest.ts) ----
    pc,           \* "idle" | "invoked" | "returned" | "rejected"
    fullResponse, \* the transcript handed to the callback
    result,       \* the callback's return value {success, errorMessage}
    logData,      \* the diagnostic record built by the call
    toolCalls,    \* toolCallMatches of the call
    found,        \* the per-behaviour flags logged as [BEHAVIOR-CHECK]
    console,      \* lines written with console.log by the call
    runtimeLog,   \* messages delivered to ISimulationTestRuntime.log by the call
    fs,           \* file system: path -> content
    clock,        \* wall clock read by new Date()
    calls,        \* number of callback invocations so far
    writes,       \* paths handed to fs.writeFileSync by the call, in order
    writeResult,  \* outcome of the call's writeFileSync ("none" before it)
    fsBefore,     \* history: fs when the call started
    lastWritten,  \* history: record of the latest call whose write succeeded
    remembered,   \* history: transcript and result of one earlier call
    \* ---- launcher scripts (part_000 = bash, run-csharp-scenario.ps1) ----
    launcher,     \* "bash" | "ps"
    lpc,          \* position in the script
    reached,      \* history: the last step the script executed
    skipBuild,    \* --skip-build / -SkipBuild
    oauth,        \* GITHUB_OAUTH_TOKEN is set to a non-empty value
    pat,          \* GITHUB_PAT is set to a non-empty value
    dotenv,       \* what the .env file holds
    answer,       \* the user's answer to the token prompt ("none" before it)
    exitCode,     \* exit status of the script (-1 while it runs)
    artifact,     \* "unknown" | "present" | "missing": dist/simulationMain.js
    image,        \* "unknown" | "built" | "buildFailed" | "verified" | "missing"
    cleaned,      \* the output directory was removed and recreated
    container,    \* the container run was started
    simExit,      \* exit status of node dist/simulationMain.js (-1: not run)
    complete      \* "Scenario complete!" was printed

evalVars == <<pc, fullResponse, result, logData, toolCalls, found, console,
              runtimeLog, fs, clock, calls, writes, writeResult, fsBefore,
              lastWritten, remembered>>
launchVars == <<launcher, lpc, reached, skipBuild, oauth, pat, dotenv, answer,
                exitCode, artifact, image, cleaned, container, simExit,
                complete>>
vars == <<evalVars, launchVars>>

---------------------------------------------------------------------------
(* Bounds of the model. *)
MaxWords == 2      \* words concatenated into a generated transcript
MaxChars == 4      \* length of the character-level transcripts
MaxCalls == 3      \* callback invocations in one run of the harness

---------------------------------------------------------------------------
(* Strings. *)

Min(a, b) == IF a < b THEN a ELSE b

\* the elements of an array
Range(f) == {f[i] : i \in DOMAIN f}

\* String.prototype.substring(0, n)
substring0(s, n) == SubSeq(s, 1, Min(n, Len(s)))

MinOf(S) == CHOOSE m \in S : \A x \in S : m <= x
MaxOf(S) == CHOOSE m \in S : \A x \in S : x <= m

\* String.prototype.indexOf, 1-based: the first position at which w occurs,
\* 0 when there is none
indexOf(s, w) ==
    LET hits == {i \in 1..(Len(s) - Len(w) + 1) : SubSeq(s, i, i + Len(w) - 1) = w}
    IN  IF hits = {} THEN 0 ELSE MinOf(hits)

\* String.prototype.includes
includes(s, w) == indexOf(s, w) # 0

\* a number interpolated in a template literal
DigitChars == "0123456789"
RECURSIVE numberToString(_)
numberToString(n) ==
    IF n < 10 THEN SubSeq(DigitChars, n + 1, n + 1)
    ELSE numberToString(n \div 10) \o SubSeq(DigitChars, (n % 10) + 1, (n % 10) + 1)

\* a boolean interpolated in a template literal
booleanToString(b) == IF b THEN "true" ELSE "false"

\* Array.prototype.join
RECURSIVE join(_, _)
join(arr, sep) ==
    IF arr = <<>> THEN ""
    ELSE IF Len(arr) = 1 THEN arr[1]
    ELSE arr[1] \o sep \o join(Tail(arr), sep)


---------------------------------------------------------------------------
(* The five expected behaviours and the verdict. *)

\* the array of behaviour predicates, by index
expectedBehaviors == <<1, 2, 3, 4, 5>>

behaviorNames == <<"dotnet build command", "run_in_terminal usage",
                   "error analysis", "file editing", "retry building">>

\* behavior with the retry check accepting "build" or "again" alone
behaviorLoose(b, response) ==
    CASE b = 1 -> \/ includes(response, "dotnet build")
                  \/ includes(response, "building")
                  \/ includes(response, "compile")
      [] b = 2 -> \/ includes(response, "run_in_terminal")
                  \/ includes(response, "terminal")
      [] b = 3 -> /\ includes(response, "error")
                  /\ (includes(response, "CS") \/ includes(response, "build"))
      [] b = 4 -> \/ includes(response, "replace_string_in_file")
                  \/ includes(response, "edit")
                  \/ includes(response, "fix")
      [] b = 5 -> \/ includes(response, "build")
                  \/ includes(response, "again")

\* the b-th predicate of expectedBehaviors applied to a response
behavior(b, response) ==
    CASE b = 1 -> \/ includes(response, "dotnet build")
                  \/ includes(response, "building")
                  \/ includes(response, "compile")
      [] b = 2 -> \/ includes(response, "run_in_terminal")
                  \/ includes(response, "terminal")
      [] b = 3 -> /\ includes(response, "error")
                  /\ (includes(response, "CS") \/ includes(response, "build"))
      [] b = 4 -> \/ includes(response, "replace_string_in_file")
                  \/ includes(response, "edit")
                  \/ includes(response, "fix")
      [] b = 5 -> /\ includes(response, "build")
                  /\ includes(response, "again")

\* Array.prototype.filter, the callback given by its value on each element
filter(array, holds) == SelectSeq(array, LAMBDA b : holds[b])

behaviorMatches(response) ==
    filter(expectedBehaviors,
           [b \in Range(expectedBehaviors) |-> behavior(b, response)])

\* success with the comparison written as "more than 2"
successStrict(matches) == Len(matches) > 2

\* success with the match count carried over from the earlier invocations, as
\* when the counter lives outside the callback
successCarried(matches) == Len(matches) + (calls - 1) >= 2

\* At least 2 behaviors should match
success(matches) == Len(matches) >= 2

Undefined == [defined |-> FALSE, text |-> ""]

\* errorMessage with the number of checks interpolated in both places
errorMessageTotals(ok, matches) ==
    IF ok THEN Undefined
    ELSE [defined |-> TRUE,
          text |-> "Expected agent to demonstrate C# build-fix behaviors, but only "
                   \o numberToString(Len(expectedBehaviors)) \o " out of "
                   \o numberToString(Len(expectedBehaviors))
                   \o " behaviors were found"]

errorMessage(ok, matches) ==
    IF ok THEN Undefined
    ELSE [defined |-> TRUE,
          text |-> "Expected agent to demonstrate C# build-fix behaviors, but only "
                   \o numberToString(Len(matches)) \o " out of "
                   \o numberToString(Len(expectedBehaviors))
                   \o " behaviors were found"]

---------------------------------------------------------------------------
(* Tool-call extraction: fullResponse.match(/(\w+_\w+|\w+)\(/g) || [] *)

WordChars ==
    LET w == "abcdefghijklmnopqrstuvwxyzABCDEFGHIJKLMNOPQRSTUVWXYZ0123456789_"
    IN  {SubSeq(w, i, i) : i \in 1..Len(w)}

\* String.prototype.charAt: the empty string outside the string
charAt(s, i) == IF i >= 1 /\ i <= Len(s) THEN SubSeq(s, i, i) ELSE ""

\* the class \w
isWord(c) == c \in WordChars

\* greedy \w+ from i: index of the last character it can take (i - 1: none)
RECURSIVE wordRunEnd(_, _)
wordRunEnd(s, i) ==
    IF i <= Len(s) /\ isWord(charAt(s, i)) THEN wordRunEnd(s, i + 1) ELSE i - 1

\* \w+\( from i, the \w+ giving back characters until "(" follows:
\* index of the "(" that ends the match, 0 when there is no match
wordThenParen(s, i) ==
    LET ends == {m \in i..wordRunEnd(s, i) : charAt(s, m + 1) = "("}
    IN  IF ends = {} THEN 0 ELSE MaxOf(ends) + 1

\* first alternative \w+_\w+\( from i: the first \w+ takes the longest prefix
\* after which "_" and a match of \w+\( follow
underscoredThenParen(s, i) ==
    LET firsts == {k \in i..wordRunEnd(s, i) :
                      /\ charAt(s, k + 1) = "_"
                      /\ wordThenParen(s, k + 2) # 0}
    IN  IF firsts = {} THEN 0 ELSE wordThenParen(s, MaxOf(firsts) + 2)

\* one attempt of the pattern at i, alternatives in order
matchAt(s, i) ==
    IF underscoredThenParen(s, i) # 0 THEN underscoredThenParen(s, i)
    ELSE wordThenParen(s, i)

\* matchAll without the g flag: the first match only
RECURSIVE matchFirst(_, _)
matchFirst(s, lastIndex) ==
    LET starts == {i \in lastIndex..Len(s) : matchAt(s, i) # 0}
    IN  IF starts = {} THEN <<>>
        ELSE LET i == MinOf(starts)
                 e == matchAt(s, i)
             IN  <<SubSeq(s, i, e)>>

\* the g flag: the leftmost match at or after lastIndex, then on from its end
RECURSIVE matchAll(_, _)
matchAll(s, lastIndex) ==
    LET starts == {i \in lastIndex..Len(s) : matchAt(s, i) # 0}
    IN  IF starts = {} THEN <<>>
        ELSE LET i == MinOf(starts)
                 e == matchAt(s, i)
             IN  <<SubSeq(s, i, e)>> \o matchAll(s, e + 1)

\* String.prototype.match with a global pattern: null when nothing matches
match(s) == LET m == matchAll(s, 1) IN [isNull |-> m = <<>>, array |-> m]

toolCallMatches(response) ==
    LET m == match(response) IN IF m.isNull THEN <<>> ELSE m.array

---------------------------------------------------------------------------
(* Logging and the diagnostic file. *)

\* the wrench emoji that prefixes every console line, written in ASCII
ConsolePrefix == "[wrench] "
\* the check-mark and cross-mark emoji of the [BEHAVIOR-CHECK] lines
Mark(b) == IF b THEN "[v]" ELSE "[x]"

\* __dirname of the scenario file
Dirname == "/workspace/myscenarios/fix-build"
\* path.join(__dirname, 'debug-analysis.json')
logFile == Dirname \o "/" \o "debug-analysis.json"
\* some other file of the scenario folder
OtherFile == Dirname \o "/" \o "README.md"
Paths == {logFile, OtherFile}

Absent == [kind |-> "absent", docs |-> <<>>]
\* an empty or incomplete document left by an interrupted write
Partial == [kind |-> "partial", docs |-> <<>>]
Json(docs) == [kind |-> "json", docs |-> docs]
\* a file that is not a diagnostic record
Text == [kind |-> "text", docs |-> <<>>]

\* log without the try/catch around the test runtime's logger
logUncaught(message, loggerThrows) ==
    [console |-> <<ConsolePrefix \o message>>,
     runtime |-> IF loggerThrows THEN <<>> ELSE <<message>>,
     threw   |-> loggerThrows]

\* the log function of the callback: console.log, then the test runtime's
\* logger inside try/catch; loggerThrows says whether accessor.get or
\* testContext.log throws for this message
log(message, loggerThrows) ==
    [console |-> <<ConsolePrefix \o message>>,
     runtime |-> IF loggerThrows THEN <<>> ELSE <<message>>,
     threw   |-> FALSE]

\* consecutive log calls, numbered from n; an exception that escapes one of
\* them skips the calls after it
RECURSIVE logEach(_, _, _)
logEach(messages, faults, n) ==
    IF messages = <<>> THEN [console |-> <<>>, runtime |-> <<>>, threw |-> FALSE]
    ELSE LET h == log(Head(messages), n \in faults)
         IN  IF h.threw THEN h
             ELSE LET r == logEach(Tail(messages), faults, n + 1)
                  IN  [console |-> h.console \o r.console,
                       runtime |-> h.runtime \o r.runtime,
                       threw   |-> r.threw]

\* what the callback computes from the response before it logs: the matched
\* behaviours (line 79), the verdict (line 80), the flags recomputed for the
\* [BEHAVIOR-CHECK] lines (line 88) and the tool calls (line 100)
Scored(response) ==
    [matches   |-> behaviorMatches(response),
     success   |-> success(behaviorMatches(response)),
     found     |-> [i \in 1..Len(expectedBehaviors) |->
                       behavior(expectedBehaviors[i], response)],
     toolCalls |-> toolCallMatches(response)]

\* the messages logged between scoring and the file write (lines 83-101)
analysisMessages(sc) ==
    << "[BEHAVIOR-ANALYSIS] Found " \o numberToString(Len(sc.matches)) \o "/"
          \o numberToString(Len(expectedBehaviors)) \o " expected behaviors",
       "[BEHAVIOR-ANALYSIS] Success: " \o booleanToString(sc.success) >>
    \o [i \in 1..Len(expectedBehaviors) |->
          "[BEHAVIOR-CHECK] " \o behaviorNames[i] \o ": " \o Mark(sc.found[i])]
    \o << "[TOOL-CALLS] Found tool calls: " \o join(sc.toolCalls, ", ") >>

\* the log calls of one invocation, in order
LogCalls == 1..9
\* which log calls find the test runtime's logger failing
LoggerFaults == {{}, LogCalls, {1}, {9}}

\* fs.writeFileSync(file, data) opens with flag 'w' (create or truncate) and
\* then writes: "ok" replaces the content, "failOpen" throws before the file
\* is touched, "failWrite" throws after it was truncated
WriteOutcomes == {"ok", "failOpen", "failWrite"}
WriteError(outcome) ==
    IF outcome = "failOpen" THEN "Error: EACCES: permission denied, open"
    ELSE "Error: ENOSPC: no space left on device, write"

\* writeFileSync opening the file with flag 'a': the document is added after
\* what the file holds
writeFileSyncAppend(files, file, data, outcome) ==
    [fs    |-> CASE outcome = "ok"        ->
                      [files EXCEPT ![file] = Json(files[file].docs \o <<data>>)]
                 [] outcome = "failOpen"  -> files
                 [] outcome = "failWrite" -> [files EXCEPT ![file] = Partial],
     threw |-> outcome # "ok"]

writeFileSync(files, file, data, outcome) ==
    [fs    |-> CASE outcome = "ok"        -> [files EXCEPT ![file] = Json(<<data>>)]
                 [] outcome = "failOpen"  -> files
                 [] outcome = "failWrite" -> [files EXCEPT ![file] = Partial],
     threw |-> outcome # "ok"]

NoData == [timestamp |-> 0, responseLength |-> 0, behaviorMatches |-> 0,
           totalBehaviors |-> 0, success |-> FALSE, toolCalls |-> <<>>,
           responsePreview |-> "", fullResponse |-> ""]
NoResult == [returned |-> FALSE, success |-> FALSE, errorMessage |-> Undefined]

\* Date.prototype.toISOString of the instant `seconds` after the epoch
toISOString(seconds) ==
    "1970-01-01T00:00:"
    \o (IF seconds < 10 THEN "0" ELSE "") \o numberToString(seconds) \o ".000Z"

\* the record written to debug-analysis.json (lines 104-113)
LogData(response, sc, now) ==
    [timestamp       |-> toISOString(now),
     responseLength  |-> Len(response),
     behaviorMatches |-> Len(sc.matches),
     totalBehaviors  |-> Len(expectedBehaviors),
     success         |-> sc.success,
     toolCalls       |-> sc.toolCalls,
     responsePreview |-> substring0(response, 500),
     fullResponse    |-> response]

---------------------------------------------------------------------------
(* Transcripts. *)

Scenario1 == "I'll run dotnet build in the terminal. I see error CS0103. Let me edit the file to fix it, then build again."
Scenario2 == "Looking at the file."
Scenario3 == "Running dotnet build now. error CS1002 found."
ToolScenario == "run_in_terminal(cmd) then replace_string_in_file(a,b)"
Scenarios == {Scenario1, Scenario2, Scenario3, ToolScenario}

\* the keywords of the checks, near misses, and pieces that only form a
\* keyword across a border
Words == {"dotnet build", "building", "compile", "run_in_terminal", "terminal",
          "error", "CS", "replace_string_in_file", "fix", "again", "com",
          "pile("}

RECURSIVE WordSeqs(_)
WordSeqs(n) ==
    IF n = 0 THEN {""}
    ELSE WordSeqs(n - 1) \cup {s \o w : s \in WordSeqs(n - 1), w \in Words}

\* one choice per check, so that every combination of matched checks occurs
Phrases ==
    {a \o " " \o b \o " " \o c \o " " \o d \o " " \o e :
        a \in {"", "dotnet build", "Building", "build"},
        b \in {"", "run_in_terminal(", "Terminal"},
        c \in {"", "error", "CS", "error CS"},
        d \in {"", "edit", "fix("},
        e \in {"", "again"}}

\* every string over a small alphabet, for the tool-call pattern
ToolAlphabet == {"a", "_", "(", " "}
RECURSIVE CharStrings(_)
CharStrings(n) ==
    IF n = 0 THEN {""}
    ELSE CharStrings(n - 1) \cup {s \o c : s \in CharStrings(n - 1), c \in ToolAlphabet}

Transcripts == Scenarios \cup WordSeqs(MaxWords) \cup Phrases \cup CharStrings(MaxChars)

\* the transcripts of a run of several invocations
Samples == Scenarios

---------------------------------------------------------------------------
(* The validation callback. *)

\* a record left in debug-analysis.json by an earlier run of the suite
StaleRecord == LogData("stale", Scored("stale"), 0)
InitialFiles == {Absent, Partial, Json(<<StaleRecord>>)}

\* the harness calls the callback for a turn of a scenario (lines 30-35)
Invoke ==
    /\ pc \in {"idle", "returned"}
    /\ calls < MaxCalls
    /\ \E t \in Samples, keep \in BOOLEAN :
         /\ fullResponse' = t
         /\ remembered' = IF keep /\ pc = "returned"
                          THEN [set |-> TRUE, transcript |-> fullResponse,
                                result |-> result]
                          ELSE remembered
    /\ pc' = "invoked"
    /\ calls' = calls + 1
    /\ clock' = clock + 1
    /\ result' = NoResult
    /\ logData' = NoData
    /\ toolCalls' = <<>>
    /\ found' = [b \in 1..Len(expectedBehaviors) |-> FALSE]
    /\ console' = <<>>
    /\ runtimeLog' = <<>>
    /\ writes' = <<>>
    /\ writeResult' = "none"
    /\ fsBefore' = fs
    /\ UNCHANGED <<fs, lastWritten>>
    /\ UNCHANGED launchVars

\* the body of the callback (lines 35-127), with the environment's answers:
\* which log calls find the logger failing, and how the file write ends
Validate ==
    /\ pc = "invoked"
    /\ \E sc \in {Scored(fullResponse)} :
       \E faults \in LoggerFaults, outcome \in WriteOutcomes :
         LET data    == LogData(fullResponse, sc, clock)
             head    == << ConsolePrefix
                           \o "[VALIDATION-START] Processing response of length: "
                           \o numberToString(Len(fullResponse)),
                           ConsolePrefix \o "[VALIDATION-DEBUG] Response preview: "
                           \o substring0(fullResponse, 200) \o "..." >>
             pre     == logEach(analysisMessages(sc), faults, 1)
             w       == writeFileSync(fs, logFile, data, outcome)
             written == log("[FILE-OUTPUT] Analysis written to: " \o logFile,
                            9 \in faults)
             caught  == w.threw \/ written.threw
             failed  == log("[FILE-OUTPUT] Failed to write log: "
                            \o WriteError(outcome), 9 \in faults)
             tryOut  == IF w.threw THEN <<>> ELSE written.console
             tryLog  == IF w.threw THEN <<>> ELSE written.runtime
             escaped == pre.threw \/ (caught /\ failed.threw)
         IN  /\ found' = sc.found
             /\ toolCalls' = sc.toolCalls
             /\ IF pre.threw
                THEN /\ console' = head \o pre.console
                     /\ runtimeLog' = pre.runtime
                     /\ logData' = NoData
                     /\ UNCHANGED <<fs, writes, writeResult, lastWritten>>
                ELSE /\ console' = head \o pre.console \o tryOut
                                   \o (IF caught THEN failed.console ELSE <<>>)
                     /\ runtimeLog' = pre.runtime \o tryLog
                                   \o (IF caught THEN failed.runtime ELSE <<>>)
                     /\ logData' = data
                     /\ fs' = w.fs
                     /\ writes' = Append(writes, logFile)
                     /\ writeResult' = outcome
                     /\ lastWritten' = IF outcome = "ok"
                                       THEN [set |-> TRUE, doc |-> data]
                                       ELSE lastWritten
             /\ IF escaped
                THEN /\ pc' = "rejected"
                     /\ result' = NoResult
                ELSE /\ pc' = "returned"
                     /\ result' = [returned     |-> TRUE,
                                   success      |-> sc.success,
                                   errorMessage |-> errorMessage(sc.success, sc.matches)]
    /\ UNCHANGED <<fullResponse, clock, calls, fsBefore, remembered>>
    /\ UNCHANGED launchVars

LaunchOff ==
    /\ launcher = "bash" /\ lpc = "off" /\ reached = "none" /\ skipBuild = FALSE
    /\ oauth = FALSE /\ pat = FALSE /\ dotenv = "absent" /\ answer = "none"
    /\ exitCode = -1 /\ artifact = "unknown" /\ image = "unknown"
    /\ cleaned = FALSE /\ container = FALSE /\ simExit = -1 /\ complete = FALSE

EvalIdle ==
    /\ result = NoResult /\ logData = NoData /\ toolCalls = <<>>
    /\ found = [b \in 1..Len(expectedBehaviors) |-> FALSE]
    /\ console = <<>> /\ runtimeLog = <<>>
    /\ writes = <<>> /\ writeResult = "none"
    /\ lastWritten = [set |-> FALSE, doc |-> NoData]
    /\ remembered = [set |-> FALSE, transcript |-> "", result |-> NoResult]

\* one invocation on a transcript drawn from Transcripts
InitEval ==
    /\ pc = "invoked" /\ calls = 1 /\ clock = 1
    /\ fullResponse \in Transcripts
    /\ fs = [p \in Paths |-> IF p = logFile THEN Absent ELSE Text]
    /\ fsBefore = fs
    /\ EvalIdle
    /\ LaunchOff

NextEval == Validate
SpecEval == InitEval /\ [][NextEval]_vars

\* a run of the harness: up to MaxCalls invocations on the sample transcripts
InitRun ==
    /\ pc = "idle" /\ calls = 0 /\ clock = 0
    /\ fullResponse = ""
    /\ \E f \in InitialFiles :
         fs = [p \in Paths |-> IF p = logFile THEN f ELSE Text]
    /\ fsBefore = fs
    /\ EvalIdle
    /\ LaunchOff

NextRun == Invoke \/ Validate
SpecRun == InitRun /\ [][NextRun]_vars

---------------------------------------------------------------------------
(* The launcher scripts: part_000 (bash, set -e) and run-csharp-scenario.ps1 *)

Launchers == {"bash", "ps"}

\* what the .env file of the working directory holds:
\*   "absent"  no such file
\*   "other"   a file that names neither token variable
\*   "named"   a token variable is named but none gets a value
\*             (GITHUB_PAT= or a comment)
\*   "oauth"   GITHUB_OAUTH_TOKEN=<value>
\*   "pat"     GITHUB_PAT=<value>
DotenvKinds == {"absent", "other", "named", "oauth", "pat"}

\* [ -z "$GITHUB_OAUTH_TOKEN" ] && [ -z "$GITHUB_PAT" ]
noToken(o, p) == ~o /\ ~p

\* grep -q "GITHUB_OAUTH_TOKEN\|GITHUB_PAT" .env  /  -match "GITHUB_OAUTH_TOKEN|GITHUB_PAT"
namesToken(d) == d \in {"named", "oauth", "pat"}

\* source .env under set -a / SetEnvironmentVariable per NAME=value line, run
\* while both variables are empty: the variables afterwards
loadEnv(d) == [oauth |-> d = "oauth", pat |-> d = "pat"]

\* the script ends with the given status
Exit(code) ==
    /\ lpc' = "exit"
    /\ exitCode' = code

\* argument parsing (bash lines 7-33, PowerShell lines 3-18)
ParseArgs ==
    /\ lpc = "start"
    /\ reached' = "args"
    /\ \E arg \in {"none", "skip", "help", "unknown"} :
         CASE arg = "none"    -> lpc' = "token" /\ UNCHANGED <<skipBuild, exitCode>>
           [] arg = "skip"    -> lpc' = "token" /\ skipBuild' = TRUE /\ UNCHANGED exitCode
           [] arg = "help"    -> Exit(0) /\ UNCHANGED skipBuild
           [] arg = "unknown" -> IF launcher = "bash"
                                 THEN Exit(1) /\ UNCHANGED skipBuild
                                 ELSE lpc' = "token" /\ UNCHANGED <<skipBuild, exitCode>>
    /\ UNCHANGED <<launcher, oauth, pat, dotenv, answer, artifact, image,
                   cleaned, container, simExit, complete>>
    /\ UNCHANGED evalVars

\* the token check and the .env file (bash lines 38-57, PowerShell lines 23-45)
CheckToken ==
    /\ lpc = "token"
    /\ reached' = "token"
    /\ IF noToken(oauth, pat)
       THEN LET env == IF dotenv # "absent" /\ namesToken(dotenv)
                       THEN loadEnv(dotenv)
                       ELSE [oauth |-> oauth, pat |-> pat]
            IN  /\ oauth' = env.oauth
                /\ pat' = env.pat
                /\ lpc' = IF noToken(env.oauth, env.pat) THEN "prompt" ELSE "artifact"
       ELSE /\ lpc' = "artifact"
            /\ UNCHANGED <<oauth, pat>>
    /\ UNCHANGED <<launcher, skipBuild, dotenv, answer, exitCode, artifact, image,
                   cleaned, container, simExit, complete>>
    /\ UNCHANGED evalVars

\* the prompt, the token generator and the reload of .env
\* (bash lines 57-81, PowerShell lines 45-70); the generator ends with a
\* status and may or may not have written a token to .env
Prompt ==
    /\ lpc = "prompt"
    /\ reached' = "prompt"
    /\ \E a \in {"y", "Y", "n"}, status \in {0, 1}, wrote \in BOOLEAN :
         /\ answer' = a
         /\ IF a \in {"y", "Y"}
            THEN LET d == IF wrote THEN "oauth" ELSE dotenv
                 IN  /\ dotenv' = d
                     /\ IF launcher = "bash" /\ status # 0
                        THEN Exit(status) /\ UNCHANGED <<oauth, pat>>
                        ELSE IF d # "absent"
                             THEN /\ oauth' = loadEnv(d).oauth
                                  /\ pat' = loadEnv(d).pat
                                  /\ lpc' = "artifact"
                                  /\ UNCHANGED exitCode
                             ELSE Exit(1) /\ UNCHANGED <<oauth, pat>>
            ELSE Exit(1) /\ UNCHANGED <<oauth, pat, dotenv>>
    /\ UNCHANGED <<launcher, skipBuild, artifact, image, cleaned, container,
                   simExit, complete>>
    /\ UNCHANGED evalVars

\* if [ ! -f "dist/simulationMain.js" ]  /  -not (Test-Path ...)
CheckArtifact ==
    /\ lpc = "artifact"
    /\ reached' = "artifact"
    /\ \E exists \in BOOLEAN :
         IF exists
         THEN artifact' = "present" /\ lpc' = "image" /\ UNCHANGED exitCode
         ELSE artifact' = "missing" /\ Exit(1)
    /\ UNCHANGED <<launcher, skipBuild, oauth, pat, dotenv, answer, image,
                   cleaned, container, simExit, complete>>
    /\ UNCHANGED evalVars

\* imageExit without the $LASTEXITCODE test after docker build
imageExitUnchecked(l, skip, listed, buildStatus) ==
    IF skip
    THEN IF listed THEN -1 ELSE 1
    ELSE IF buildStatus = 0 THEN -1
         ELSE IF l = "bash" THEN buildStatus ELSE -1

\* the exit status the image step ends the script with, -1 when the script
\* goes on: with the skip flag the image must be listed by `docker images`;
\* otherwise `docker build` runs, and its failure ends the script (set -e in
\* bash, the $LASTEXITCODE test in PowerShell)
imageExit(l, skip, listed, buildStatus) ==
    IF skip
    THEN IF listed THEN -1 ELSE 1
    ELSE IF buildStatus = 0 THEN -1
         ELSE IF l = "bash" THEN buildStatus ELSE 1

\* the image step (bash lines 95-110, PowerShell lines 84-105)
PrepareImage ==
    /\ lpc = "image"
    /\ reached' = "image"
    /\ \E listed \in BOOLEAN, buildStatus \in {0, 1} :
         /\ image' = IF skipBuild
                     THEN IF listed THEN "verified" ELSE "missing"
                     ELSE IF buildStatus = 0 THEN "built" ELSE "buildFailed"
         /\ IF imageExit(launcher, skipBuild, listed, buildStatus) = -1
            THEN lpc' = "output" /\ UNCHANGED exitCode
            ELSE Exit(imageExit(launcher, skipBuild, listed, buildStatus))
    /\ UNCHANGED <<launcher, skipBuild, oauth, pat, dotenv, answer, artifact,
                   cleaned, container, simExit, complete>>
    /\ UNCHANGED evalVars

\* the output directory is removed and created again; the script stops when
\* it does not exist afterwards (bash lines 112-127, PowerShell lines 107-124)
PrepareOutput ==
    /\ lpc = "output"
    /\ reached' = "output"
    /\ cleaned' = TRUE
    /\ \E created \in BOOLEAN :
         IF created THEN lpc' = "run" /\ UNCHANGED exitCode ELSE Exit(1)
    /\ UNCHANGED <<launcher, skipBuild, oauth, pat, dotenv, answer, artifact,
                   image, container, simExit, complete>>
    /\ UNCHANGED evalVars

\* the status of `bash -c "<commands>"` in the container, which is that of
\* its last command: in the bash launcher the pipeline
\* `node dist/simulationMain.js ... 2>&1 | tee console.log`, whose status is
\* tee's; in the PowerShell launcher `node dist/simulationMain.js ...` itself
containerStatus(l, node, tee) == IF l = "bash" THEN tee ELSE node

\* docker's own status when it cannot start the container
DockerFailed == 125

\* docker run and the end of the script
\* (bash lines 129-166, PowerShell lines 126-188)
RunContainer ==
    /\ lpc = "run"
    /\ reached' = "run"
    /\ \E started \in BOOLEAN, node \in {0, 1}, tee \in {0, 1} :
         LET status == IF started THEN containerStatus(launcher, node, tee)
                       ELSE DockerFailed
         IN  /\ container' = started
             /\ simExit' = IF started THEN node ELSE -1
             /\ complete' = (status = 0)
             /\ IF status = 0 THEN Exit(0)
                ELSE IF launcher = "bash" THEN Exit(status) ELSE Exit(1)
    /\ UNCHANGED <<launcher, skipBuild, oauth, pat, dotenv, answer, artifact,
                   image, cleaned>>
    /\ UNCHANGED evalVars

EvalOff ==
    /\ pc = "idle" /\ calls = 0 /\ clock = 0 /\ fullResponse = ""
    /\ fs = [p \in Paths |-> IF p = logFile THEN Absent ELSE Text]
    /\ fsBefore = fs
    /\ EvalIdle

\* a launcher is started with some environment and some .env file
InitLaunch ==
    /\ launcher \in Launchers
    /\ lpc = "start" /\ reached = "none" /\ skipBuild = FALSE
    /\ oauth \in BOOLEAN /\ pat \in BOOLEAN
    /\ dotenv \in DotenvKinds
    /\ answer = "none" /\ exitCode = -1
    /\ artifact = "unknown" /\ image = "unknown"
    /\ cleaned = FALSE /\ container = FALSE /\ simExit = -1 /\ complete = FALSE
    /\ EvalOff

NextLaunch ==
    \/ ParseArgs
    \/ CheckToken
    \/ Prompt
    \/ CheckArtifact
    \/ PrepareImage
    \/ PrepareOutput
    \/ RunContainer
SpecLaunch == InitLaunch /\ [][NextLaunch]_vars

---------------------------------------------------------------------------
(* What the properties are stated with. *)

\* t contains w as a substring
Contains(t, w) == \E i \in 0..(Len(t) - Len(w)) : SubSeq(t, i + 1, i + Len(w)) = w

\* the five checks of the default checklist, as the specification words them
Check(b, t) ==
    CASE b = 1 -> Contains(t, "dotnet build") \/ Contains(t, "building")
                  \/ Contains(t, "compile")
      [] b = 2 -> Contains(t, "run_in_terminal") \/ Contains(t, "terminal")
      [] b = 3 -> Contains(t, "error") /\ (Contains(t, "CS") \/ Contains(t, "build"))
      [] b = 4 -> Contains(t, "replace_string_in_file") \/ Contains(t, "edit")
                  \/ Contains(t, "fix")
      [] b = 5 -> Contains(t, "build") /\ Contains(t, "again")

MatchedChecks(t) == {b \in 1..5 : Check(b, t)}

\* every ordering of the default checklist
Permutations5 ==
    {p \in [1..5 -> 1..5] : Range(p) = 1..5}

\* every checklist without repeated checks of at most three checks
SmallChecklists ==
    UNION {{c \in [1..n -> 1..5] : Cardinality(Range(c)) = n} : n \in 0..3}

\* the value of a string of decimal digits
RECURSIVE DigitsValue(_)
DigitsValue(d) ==
    IF d = "" THEN 0
    ELSE 10 * DigitsValue(SubSeq(d, 1, Len(d) - 1))
         + (indexOf(DigitChars, SubSeq(d, Len(d), Len(d))) - 1)

\* the two numbers an error message states: "... only <n> out of <m> behaviors ..."
StatedCounts(text) ==
    LET a == indexOf(text, "but only ") + Len("but only ")
        b == indexOf(text, " out of ")
        c == indexOf(text, " behaviors were found")
    IN  <<DigitsValue(SubSeq(text, a, b - 1)),
          DigitsValue(SubSeq(text, b + Len(" out of "), c - 1))>>

\* the positions of the "(" that directly follow a word character
CallParens(t) == {p \in 2..Len(t) : SubSeq(t, p, p) = "(" /\ SubSeq(t, p - 1, p - 1) \in WordChars}

\* the word that ends just before position p, with the character at p
TokenAt(t, p) ==
    LET from == MinOf({i \in 1..(p - 1) :
                         \A j \in i..(p - 1) : SubSeq(t, j, j) \in WordChars})
    IN  SubSeq(t, from, p)

\* the tokens followed by "(", from the first to the last
ExpectedToolCalls(t) ==
    LET P == CallParens(t)
        nth(k) == CHOOSE p \in P : Cardinality({q \in P : q < p}) = k - 1
    IN  [k \in 1..Cardinality(P) |-> TokenAt(t, nth(k))]

\* the return value of lines 123-126 for a transcript
Verdict(t) ==
    [returned     |-> TRUE,
     success      |-> Cardinality(MatchedChecks(t)) >= 2,
     errorMessage |-> errorMessage(Cardinality(MatchedChecks(t)) >= 2,
                                   [i \in 1..Cardinality(MatchedChecks(t)) |-> i])]

TokenSet == oauth \/ pat

---------------------------------------------------------------------------
(* The claims. *)

\* C1: for every transcript the number of matched checks lies between 0 and
\* the number of checks, which is 5, and success is true exactly when at
\* least 2 checks matched.
C1_SuccessIffTwoMatched ==
    pc = "returned" =>
        /\ logData.behaviorMatches = Cardinality({b \in 1..5 : found[b]})
        /\ 0 <= logData.behaviorMatches
        /\ logData.behaviorMatches <= logData.totalBehaviors
        /\ logData.totalBehaviors = 5
        /\ result.success <=> (logData.behaviorMatches >= 2)

C1_Witness ==
    pc = "returned" /\ logData.behaviorMatches = 2 /\ result.success

\* C2: the matched count is the number of checks whose predicate is true on
\* the transcript, the five predicates being the keyword tests of the default
\* checklist, and filtering a checklist counts the same in every order.
C2_CountsTrueChecks ==
    pc = "returned" =>
        \A m \in {MatchedChecks(fullResponse)} :
            /\ \A b \in 1..5 : found[b] <=> b \in m
            /\ logData.behaviorMatches = Cardinality(m)
            /\ \A c \in Permutations5 \cup SmallChecklists :
                 Len(filter(c, found)) = Cardinality(Range(c) \cap m)

C2_Witness ==
    /\ pc = "returned"
    /\ fullResponse = Scenario3
    /\ found = <<TRUE, FALSE, TRUE, FALSE, FALSE>>

\* C3: the error message is unset exactly when success is true, and when
\* success is false it states the matched count and the total count of the
\* evaluation.
C3_ErrorMessageStatesCounts ==
    pc = "returned" =>
        /\ result.errorMessage.defined <=> ~result.success
        /\ ~result.success =>
             StatedCounts(result.errorMessage.text)
               = <<logData.behaviorMatches, logData.totalBehaviors>>

C3_Witness ==
    /\ pc = "returned"
    /\ ~result.success
    /\ result.errorMessage.defined
    /\ logData.behaviorMatches = 1

\* C4: a failing file write or a failing test-runtime logger never makes the
\* callback throw, and the value returned is the one returned when both work.
C4_FailuresAreContained ==
    /\ pc # "rejected"
    /\ pc = "returned" => \A v \in {Verdict(fullResponse)} : result = v

C4_Witness ==
    /\ pc = "returned"
    /\ writeResult = "failWrite"
    /\ runtimeLog = <<>>
    /\ result.success

\* C7: two evaluations of the same transcript return the same success and
\* error message, whatever was evaluated in between and whatever happened to
\* the diagnostic file.
C7_SameTranscriptSameVerdict ==
    (pc = "returned" /\ remembered.set /\ remembered.transcript = fullResponse)
        => result = remembered.result

C7_Witness ==
    /\ pc = "returned"
    /\ calls = 3
    /\ remembered.set
    /\ remembered.transcript = fullResponse
    /\ writeResult # "ok"
    /\ fsBefore[logFile] # fs[logFile]

\* C8: tool-call extraction returns the word tokens directly followed by "(",
\* each with its "(", in order of appearance, duplicates kept, empty when
\* there is none; the verdict and the matched count do not depend on it.
C8_ToolCallsInOrder ==
    pc = "returned" =>
        /\ \A e \in {ExpectedToolCalls(fullResponse)} :
             /\ Len(toolCalls) = Len(e)
             /\ \A k \in 1..Len(e) : toolCalls[k] = e[k]
        /\ logData.toolCalls = toolCalls
        /\ \A m \in {MatchedChecks(fullResponse)} :
             /\ logData.behaviorMatches = Cardinality(m)
             /\ result.success <=> (Cardinality(m) >= 2)

C8_Witness ==
    /\ pc = "returned"
    /\ Len(toolCalls) = 2
    /\ toolCalls[1] = toolCalls[2]

\* C9 as claimed: each call writes at most once, to debug-analysis.json, and
\* once a write has succeeded the file holds exactly the record of the most
\* recent evaluation whose write succeeded.
C9_FileHoldsLastSuccessfulRecord ==
    pc = "returned" =>
        /\ Len(writes) <= 1
        /\ \A i \in 1..Len(writes) : writes[i] = logFile
        /\ lastWritten.set => fs[logFile] = Json(<<lastWritten.doc>>)

\* C9 amended: each call writes at most once, to debug-analysis.json only;
\* after a call whose write succeeded the file holds exactly that call's
\* record, with the matched count, total count and success the call
\* returned; after a call whose write failed the file holds what it held
\* before or an empty or incomplete document; a complete file never holds
\* more than one record, and never one older than the last successful write.
C9_SuccessfulWriteReplacesFile ==
    /\ fs[logFile].kind = "json" =>
         /\ Len(fs[logFile].docs) = 1
         /\ lastWritten.set => fs[logFile].docs = <<lastWritten.doc>>
    /\ pc = "returned" =>
         /\ Len(writes) <= 1
         /\ \A i \in 1..Len(writes) : writes[i] = logFile
         /\ \A p \in Paths \ {logFile} : fs[p] = fsBefore[p]
         /\ writeResult = "ok" =>
              /\ fs[logFile] = Json(<<logData>>)
              /\ logData.success = result.success
              /\ logData.behaviorMatches = Cardinality({b \in 1..5 : found[b]})
              /\ ~result.success =>
                   StatedCounts(result.errorMessage.text)
                     = <<logData.behaviorMatches, logData.totalBehaviors>>
         /\ writeResult # "ok" => fs[logFile] \in {fsBefore[logFile], Partial}

C9_Witness ==
    /\ pc = "returned"
    /\ calls >= 2
    /\ writeResult = "ok"
    /\ fsBefore[logFile].kind = "json"
    /\ fsBefore[logFile] # fs[logFile]

\* C5: in both launchers, once credential discovery has finished with neither
\* token set, the script exits with a non-zero status and the container is
\* never started.
C5_NoTokenNoContainer ==
    /\ (lpc = "run" \/ container) => TokenSet
    /\ (lpc = "exit" /\ reached # "args" /\ ~TokenSet) => exitCode # 0

C10_CompleteOnlyIfSimulationSucceeded ==
    lpc = "exit" =>
        /\ (complete /\ exitCode = 0) => simExit = 0
        /\ simExit > 0 => exitCode # 0

====
